---- MODULE Spec2Model ----
(***************************************************************************)
(* Model of src/main.py: the WebSocket ConnectionManager (registry,        *)
(* drawing history, broadcast fan-out), the per-connection handler         *)
(* websocket_endpoint, and the retry loop of the ai_cleanup endpoint.      *)
(*                                                                         *)
(* One asyncio task runs per connection.  A task only loses control at an  *)
(* await, so every action below is the code between two awaits.            *)
(*                                                                         *)
(* SpecHub      the hub under every interleaving of the handler tasks      *)
(* SpecLog      the hub when no send suspends, with longer runs of frames  *)
(* SpecCleanup  one call of ai_cleanup against every run of responses      *)
(* SpecRegistry ConnectionManager.disconnect on every registry              *)
(* SpecServer   the hub and a call of ai_cleanup on the one event loop      *)
(*                                                                         *)
(* inbox and applied are history variables: what each client has received  *)
(* and which events add_to_history was given, in order.  An event carries  *)
(* a unique id and its sender so that deliveries can be counted.           *)
(***************************************************************************)
EXTENDS Integers, Sequences, FiniteSets, TLC

\* ---------------------------------------------------------------- bounds
NumConns == 3       \* connections opened in a run
MaxEvents == 2      \* well-formed frames received in a run of the hub
MaxGone == 1        \* clients that vanish without a close handshake
MaxLogEvents == 3   \* well-formed frames in a run of the sequential schedule
MaxCommas == 2      \* commas in the data URL of a cleanup request
MaxServerEvents == 1  \* well-formed frames in a run of the hub beside a cleanup

Conns == 1..NumConns

\* ------------------------------------------------------- program constants
max_retries == 5
InitialDelay == 1
RetryableStatus == {429, 500, 503}

VARIABLES
    active_connections,  \* ConnectionManager.active_connections (a list)
    drawing_history,     \* ConnectionManager.drawing_history (a list)
    pc,                  \* per connection: where its handler task stands
    peer,                \* per connection: the client's end, "open" or "gone"
    bidx,                \* per connection: items its broadcast loop consumed
    bmsg,                \* per connection: the message its loop is sending
    inbox,               \* per connection: frames the client has received
    nextId,              \* ids of the frames clients have sent so far
    applied,             \* history variable: events given to add_to_history
    raised,              \* what the last manager.disconnect raised, or "none"
    apiKey,              \* OPENAI_API_KEY
    image,               \* commas in request.image_data_url
    cpc,                 \* ai_cleanup: position of the call
    attempt,             \* ai_cleanup: loop variable i
    delay,               \* ai_cleanup: delay
    slept,               \* total time spent in time.sleep
    responses,           \* outcomes of the requests.post calls so far
    cresult              \* what ai_cleanup returned or raised

hubVars == <<active_connections, drawing_history, pc, peer, bidx, bmsg,
             inbox, nextId, applied, raised>>
cleanupVars == <<apiKey, image, cpc, attempt, delay, slept, responses, cresult>>
vars == <<active_connections, drawing_history, pc, peer, bidx, bmsg,
          inbox, nextId, applied, raised,
          apiKey, image, cpc, attempt, delay, slept, responses, cresult>>

\* ---------------------------------------------------------------- helpers
Range(s) == {s[k] : k \in 1..Len(s)}

NoEvent == [type |-> "none", id |-> 0, from |-> 0]

\* What json.loads and message_data.get("type") make of a text frame.
EventTypes == {"stroke", "clear", "cleanup"}
BadFrames == {"malformed", "nonobject"}

\* list.remove(x): the first occurrence is removed.
RemoveFirst(l, x) ==
    LET k == CHOOSE j \in 1..Len(l) : l[j] = x /\ \A m \in 1..(j-1) : l[m] # x
    IN  SubSeq(l, 1, k-1) \o SubSeq(l, k+1, Len(l))

\* ConnectionManager.disconnect; list.remove raises ValueError when the
\* element is absent and the list is then left as it is.
disconnect(l, c) == IF c \in Range(l) THEN RemoveFirst(l, c) ELSE l

\* What that call of list.remove raises.
disconnect_raises(l, c) == IF c \in Range(l) THEN "none" ELSE "ValueError"

\* Faulty variants of add_to_history: no compaction at all; a clear that
\* keeps the clear event; a cleanup that is appended like a stroke.
add_to_history_appendOnly(h, e) == Append(h, e)

add_to_history_clearKept(h, e) ==
    IF e.type = "clear" THEN <<e>>
    ELSE IF e.type = "cleanup" THEN <<e>>
    ELSE Append(h, e)

add_to_history_cleanupAppended(h, e) ==
    IF e.type = "clear" THEN << >>
    ELSE Append(h, e)

\* ConnectionManager.add_to_history
add_to_history(h, e) ==
    IF e.type = "clear" THEN << >>
    ELSE IF e.type = "cleanup" THEN <<e>>
    ELSE Append(h, e)

\* The event loop runs hub tasks only while no ai_cleanup call holds the
\* thread: requests.post and time.sleep are blocking calls.
LoopFree == cpc \in {"idle", "done"}

\* What a send on a connection can come to: it returns, it raises
\* WebSocketDisconnect, or it raises another exception (RuntimeError on a
\* closed socket).  Which exception a send to a vanished client raises
\* depends on the server below the application.
SendResults == {"ok", "WebSocketDisconnect", "RuntimeError"}
SendOutcomes(c) ==
    IF peer[c] = "open" THEN {"ok"} ELSE {"WebSocketDisconnect", "RuntimeError"}

HistoryFrame(h, at) == [kind |-> "history", data |-> h, at |-> at, ev |-> NoEvent]
LiveFrame(e) == [kind |-> "live", data |-> << >>, at |-> 0, ev |-> e]

\* os.environ.get("OPENAI_API_KEY"): unset or empty, set without the "sk-"
\* prefix, or set with it.
ApiKeys == {"missing", "noprefix", "valid"}

\* What one requests.post can come to.  status 0: no response at all (a
\* RequestException whose response is None); 200 with the content of the
\* first choice absent or empty, not parsable by json.loads, or parsable.
Responses ==
    {[status |-> st, content |-> "none"] : st \in {0, 401, 404, 429, 500, 503}}
    \cup {[status |-> 200, content |-> k] : k \in {"absent", "unparsable", "json"}}

\* Faulty variant of NextDelay: the delay grows by one instead of doubling.
NextDelay_linear(d) == d + 1

\* delay *= 2
NextDelay(d) == d * 2

\* Faulty variant of Classify: every HTTP failure status is retried.
Classify_anyStatusRetried(resp, i) ==
    IF resp.status = 0 THEN "request_failed"
    ELSE IF resp.status # 200
         THEN IF i < max_retries - 1 THEN "retry" ELSE "request_failed"
    ELSE IF resp.content = "absent" THEN "unexpected"
    ELSE IF resp.content = "unparsable"
         THEN IF i < max_retries - 1 THEN "retry" ELSE "invalid_json"
    ELSE "success"

\* Faulty variant of Classify: content that json.loads rejects ends the call.
Classify_unparsableTerminal(resp, i) ==
    IF resp.status = 0 THEN "request_failed"
    ELSE IF resp.status # 200
         THEN IF i < max_retries - 1 /\ resp.status \in RetryableStatus
              THEN "retry" ELSE "request_failed"
    ELSE IF resp.content = "absent" THEN "unexpected"
    ELSE IF resp.content = "unparsable" THEN "invalid_json"
    ELSE "success"

\* One pass of the body of the for loop of ai_cleanup, by its response and the
\* loop variable i: what the try block and its except clauses come to.
\* "retry" is the time.sleep branch; the rest return or raise.
Classify(resp, i) ==
    IF resp.status = 0 THEN "request_failed"
    ELSE IF resp.status # 200
         THEN IF i < max_retries - 1 /\ resp.status \in RetryableStatus
              THEN "retry" ELSE "request_failed"
    ELSE IF resp.content = "absent" THEN "unexpected"
    ELSE IF resp.content = "unparsable"
         THEN IF i < max_retries - 1 THEN "retry" ELSE "invalid_json"
    ELSE "success"

\* Faulty variant of Validate: the data URL is not split before the loop.
Validate_imageUnchecked(key, commas) ==
    IF key = "missing" THEN "config_missing"
    ELSE IF key = "noprefix" THEN "config_invalid"
    ELSE "none"

\* The validations of ai_cleanup before its loop; "none" when all pass.
Validate(key, commas) ==
    IF key = "missing" THEN "config_missing"
    ELSE IF key = "noprefix" THEN "config_invalid"
    ELSE IF commas # 1 THEN "bad_image"
    ELSE "none"

\* ------------------------------------------------------------------- Init
HubInit ==
    /\ active_connections = << >>
    /\ drawing_history = << >>
    /\ pc = [c \in Conns |-> "new"]
    /\ peer = [c \in Conns |-> "open"]
    /\ bidx = [c \in Conns |-> 0]
    /\ bmsg = [c \in Conns |-> NoEvent]
    /\ inbox = [c \in Conns |-> << >>]
    /\ nextId = 1
    /\ applied = << >>
    /\ raised = "none"

CleanupInit ==
    /\ apiKey \in ApiKeys
    /\ image \in 0..MaxCommas
    /\ cpc = "idle"
    /\ attempt = 0
    /\ delay = InitialDelay
    /\ slept = 0
    /\ responses = << >>
    /\ cresult = "none"

\* The state after the module is loaded, with a usable key in the environment.
Init == HubInit /\ CleanupInit /\ apiKey = "valid" /\ image = 1

\* ------------------------------------------------------------ hub actions

\* websocket_endpoint -> connect: accept, append to the list, then send_json
\* of the history, which is serialised before the send first awaits.  A send
\* that fails (the client went away after the handshake) raises out of
\* connect, which websocket_endpoint calls outside its try: the handler ends
\* and nothing removes the connection from the list.
Register(c, out) ==
    /\ LoopFree
    /\ pc[c] = "new"
    /\ \A d \in Conns : d < c => pc[d] # "new"
    /\ active_connections' = Append(active_connections, c)
    /\ IF out = "ok"
       THEN /\ inbox' = [inbox EXCEPT ![c] =
                           Append(@, HistoryFrame(drawing_history, Len(applied)))]
            /\ pc' = [pc EXCEPT ![c] = "receiving"]
            /\ peer' = peer
       ELSE /\ inbox' = inbox
            /\ pc' = [pc EXCEPT ![c] = "ended"]
            /\ peer' = [peer EXCEPT ![c] = "gone"]
    /\ UNCHANGED cleanupVars
    /\ UNCHANGED <<drawing_history, bidx, bmsg, nextId, applied, raised>>

\* The client's end goes away without the server having noticed yet.
PeerClose(c) ==
    /\ LoopFree
    /\ pc[c] \in {"receiving", "broadcasting"}
    /\ peer[c] = "open"
    /\ peer' = [peer EXCEPT ![c] = "gone"]
    /\ UNCHANGED cleanupVars
    /\ UNCHANGED <<active_connections, drawing_history, pc, bidx, bmsg,
                   inbox, nextId, applied, raised>>

\* receive_text raises WebSocketDisconnect: manager.disconnect(websocket)
HandlerDisconnect(c) ==
    /\ LoopFree
    /\ pc[c] = "receiving"
    /\ peer[c] = "gone"
    /\ active_connections' = disconnect(active_connections, c)
    /\ raised' = disconnect_raises(active_connections, c)
    /\ pc' = [pc EXCEPT ![c] = "ended"]
    /\ UNCHANGED cleanupVars
    /\ UNCHANGED <<drawing_history, peer, bidx, bmsg, inbox, nextId, applied>>

\* receive_text returns a frame on which json.loads raises ("malformed"), or
\* which parses to a value without .get ("nonobject"): except Exception ->
\* manager.disconnect, and the handler ends.
ReceiveBad(c, f) ==
    /\ LoopFree
    /\ pc[c] = "receiving"
    /\ peer[c] = "open"
    /\ f \in BadFrames
    /\ active_connections' = disconnect(active_connections, c)
    /\ raised' = disconnect_raises(active_connections, c)
    /\ pc' = [pc EXCEPT ![c] = "ended"]
    /\ UNCHANGED cleanupVars
    /\ UNCHANGED <<drawing_history, peer, bidx, bmsg, inbox, nextId, applied>>

\* The item broadcast's list iterator yields next: the one at its index in
\* the list as the list is now.
NextRecipient(s) == active_connections[bidx[s] + 1]

\* One iteration of broadcast's for loop, sending e: send_text to the next
\* item.  WebSocketDisconnect is caught and passed; any other exception
\* leaves broadcast and reaches websocket_endpoint's except Exception, which
\* calls manager.disconnect for the sender.  The task is then suspended in
\* the send, or its handler has ended.
FanOutStep(s, e, out) ==
    /\ out \in SendOutcomes(NextRecipient(s))
    /\ inbox' = IF out = "ok"
                THEN [inbox EXCEPT ![NextRecipient(s)] = Append(@, LiveFrame(e))]
                ELSE inbox
    /\ IF out = "RuntimeError"
       THEN /\ active_connections' = disconnect(active_connections, s)
            /\ raised' = disconnect_raises(active_connections, s)
            /\ pc' = [pc EXCEPT ![s] = "ended"]
            /\ bidx' = [bidx EXCEPT ![s] = 0]
            /\ bmsg' = [bmsg EXCEPT ![s] = NoEvent]
       ELSE /\ active_connections' = active_connections
            /\ raised' = raised
            /\ pc' = [pc EXCEPT ![s] = "broadcasting"]
            /\ bidx' = [bidx EXCEPT ![s] = @ + 1]
            /\ bmsg' = [bmsg EXCEPT ![s] = e]

\* Faulty variant of ReceiveEvent: the handler does not wait for its
\* broadcast, and takes its next frame while the fan-out is under way.
ReceiveEvent_noWait(c, t, out) ==
    /\ LoopFree
    /\ pc[c] \in {"receiving", "broadcasting"}
    /\ peer[c] = "open"
    /\ t \in EventTypes
    /\ drawing_history' =
           add_to_history(drawing_history, [type |-> t, id |-> nextId, from |-> c])
    /\ applied' = Append(applied, [type |-> t, id |-> nextId, from |-> c])
    /\ nextId' = nextId + 1
    /\ IF Len(active_connections) = 0 \/ pc[c] = "broadcasting"
       THEN UNCHANGED <<active_connections, pc, bidx, bmsg, inbox, raised>>
       ELSE FanOutStep(c, [type |-> t, id |-> nextId, from |-> c], out)
    /\ UNCHANGED cleanupVars
    /\ UNCHANGED peer

\* receive_text returns a JSON object: add_to_history, then broadcast runs
\* up to its first await, the send_text to the first item of the list.
ReceiveEvent(c, t, out) ==
    /\ LoopFree
    /\ pc[c] = "receiving"
    /\ peer[c] = "open"
    /\ t \in EventTypes
    /\ drawing_history' =
           add_to_history(drawing_history, [type |-> t, id |-> nextId, from |-> c])
    /\ applied' = Append(applied, [type |-> t, id |-> nextId, from |-> c])
    /\ nextId' = nextId + 1
    /\ IF Len(active_connections) = 0
       THEN UNCHANGED <<active_connections, pc, bidx, bmsg, inbox, raised>>
       ELSE FanOutStep(c, [type |-> t, id |-> nextId, from |-> c], out)
    /\ UNCHANGED cleanupVars
    /\ UNCHANGED peer

\* broadcast resumes from a send and its loop has a further item.
BroadcastSend(s, out) ==
    /\ LoopFree
    /\ pc[s] = "broadcasting"
    /\ bidx[s] < Len(active_connections)
    /\ FanOutStep(s, bmsg[s], out)
    /\ UNCHANGED cleanupVars
    /\ UNCHANGED <<drawing_history, peer, nextId, applied>>

\* broadcast resumes from a send and the list iterator is exhausted: back to
\* await websocket.receive_text()
BroadcastDone(s) ==
    /\ LoopFree
    /\ pc[s] = "broadcasting"
    /\ bidx[s] >= Len(active_connections)
    /\ pc' = [pc EXCEPT ![s] = "receiving"]
    /\ bidx' = [bidx EXCEPT ![s] = 0]
    /\ bmsg' = [bmsg EXCEPT ![s] = NoEvent]
    /\ UNCHANGED cleanupVars
    /\ UNCHANGED <<active_connections, drawing_history, peer, inbox, nextId,
                   applied, raised>>

GoneCount == Cardinality({c \in Conns : peer[c] = "gone"})
Quiet == \A c \in Conns : pc[c] # "broadcasting"

HubNext ==
    \/ \E c \in Conns : Register(c, "ok")
    \/ \E c \in Conns : GoneCount < MaxGone /\ Register(c, "failed")
    \/ \E c \in Conns : GoneCount < MaxGone /\ PeerClose(c)
    \/ \E c \in Conns : HandlerDisconnect(c)
    \/ \E c \in Conns : \E f \in BadFrames : ReceiveBad(c, f)
    \/ \E c \in Conns : \E t \in EventTypes : \E out \in SendResults :
           nextId <= MaxEvents /\ ReceiveEvent(c, t, out)
    \/ \E s \in Conns : \E out \in SendResults : BroadcastSend(s, out)
    \/ \E s \in Conns : BroadcastDone(s)

\* The hub, every interleaving of the handler tasks at their awaits.
SpecHub == Init /\ [][HubNext]_vars

\* The schedule in which no send suspends: a frame is received, or a client
\* joins, only when no fan-out is under way.  It reaches every state of the
\* drawing history with longer runs of frames.
LogNext ==
    \/ \E c \in Conns : Quiet /\ Register(c, "ok")
    \/ \E c \in Conns : \E t \in EventTypes :
           Quiet /\ nextId <= MaxLogEvents /\ ReceiveEvent(c, t, "ok")
    \/ \E s \in Conns : BroadcastSend(s, "ok")
    \/ \E s \in Conns : BroadcastDone(s)

SpecLog == Init /\ [][LogNext]_vars

\* ------------------------------------------------- the registry by itself

\* manager.disconnect(websocket), called for any connection.
Unregister(c) ==
    /\ active_connections' = disconnect(active_connections, c)
    /\ raised' = disconnect_raises(active_connections, c)
    /\ UNCHANGED cleanupVars
    /\ UNCHANGED <<drawing_history, pc, peer, bidx, bmsg, inbox, nextId, applied>>

\* The lists the registry can hold: connections in the order they were
\* appended, none twice.
RegistryLists ==
    {l \in UNION {[1..n -> Conns] : n \in 0..NumConns} :
        \A i, j \in 1..Len(l) : i # j => l[i] # l[j]}

\* The drawing histories one frame leaves.
RegistryLogs ==
    {<< >>} \cup {<<[type |-> t, id |-> 1, from |-> f]>> :
                     t \in {"stroke", "cleanup"}, f \in Conns}

\* A hub at rest: the connections in the list are receiving, the others have
\* ended, and one frame at most has been applied.
RegistryInit ==
    /\ active_connections \in RegistryLists
    /\ drawing_history \in RegistryLogs
    /\ pc = [c \in Conns |->
                IF c \in Range(active_connections) THEN "receiving" ELSE "ended"]
    /\ peer = [c \in Conns |-> "open"]
    /\ bidx = [c \in Conns |-> 0]
    /\ bmsg = [c \in Conns |-> NoEvent]
    /\ inbox = [c \in Conns |-> << >>]
    /\ nextId = Len(drawing_history) + 1
    /\ applied = drawing_history
    /\ raised = "none"
    /\ CleanupInit
    /\ apiKey = "valid"
    /\ image = 1

RegistryNext == \E c \in Conns : Unregister(c)

\* ConnectionManager.disconnect applied to every registry and connection.
SpecRegistry == RegistryInit /\ [][RegistryNext]_vars

\* -------------------------------------------------------- cleanup actions

\* POST /api/cleanup arrives: the key and data URL are validated, then the loop
\* starts with delay = 1.0
CleanupStart ==
    /\ cpc = "idle"
    /\ cresult' = Validate(apiKey, image)
    /\ cpc' = IF Validate(apiKey, image) = "none" THEN "posting" ELSE "done"
    /\ attempt' = 0
    /\ delay' = InitialDelay
    /\ UNCHANGED <<apiKey, image, slept, responses>>
    /\ UNCHANGED hubVars

\* One requests.post and what the loop body makes of its response.
CleanupPost(resp) ==
    /\ cpc = "posting"
    /\ resp \in Responses
    /\ responses' = Append(responses, resp)
    /\ IF Classify(resp, attempt) = "retry"
       THEN cpc' = "sleeping" /\ cresult' = cresult
       ELSE cpc' = "done" /\ cresult' = Classify(resp, attempt)
    /\ UNCHANGED <<apiKey, image, attempt, delay, slept>>
    /\ UNCHANGED hubVars

\* time.sleep(delay); delay *= 2; then the next pass of the loop, or, with
\* range(max_retries) used up, the raise after the loop.
CleanupSleep ==
    /\ cpc = "sleeping"
    /\ slept' = slept + delay
    /\ delay' = NextDelay(delay)
    /\ attempt' = attempt + 1
    /\ IF attempt + 1 < max_retries
       THEN cpc' = "posting" /\ cresult' = cresult
       ELSE cpc' = "done" /\ cresult' = "exhausted"
    /\ UNCHANGED <<apiKey, image, responses>>
    /\ UNCHANGED hubVars

CleanupNext ==
    \/ CleanupStart
    \/ \E resp \in Responses : CleanupPost(resp)
    \/ CleanupSleep

CleanupSpecInit == HubInit /\ CleanupInit

\* One call of the cleanup endpoint, for every key, data URL and run of
\* responses of the external service.
SpecCleanup == CleanupSpecInit /\ [][CleanupNext]_vars

\* ------------------------------------------------- hub and cleanup together

\* The whole application on its one event loop: the handler tasks and a call
\* of ai_cleanup.  ai_cleanup has no await: from its first statement to its
\* return or raise, requests.post and time.sleep included, it keeps the
\* thread, which is the LoopFree guard of the hub's actions.  The service
\* answers 503 or a usable 200.
ServerNext ==
    \/ \E c \in Conns : Register(c, "ok")
    \/ \E c \in Conns : GoneCount < MaxGone /\ PeerClose(c)
    \/ \E c \in Conns : HandlerDisconnect(c)
    \/ \E c \in Conns : \E out \in SendResults :
           nextId <= MaxServerEvents /\ ReceiveEvent(c, "stroke", out)
    \/ \E s \in Conns : \E out \in SendResults : BroadcastSend(s, out)
    \/ \E s \in Conns : BroadcastDone(s)
    \/ CleanupStart
    \/ \E resp \in {[status |-> 503, content |-> "none"],
                     [status |-> 200, content |-> "json"]} : CleanupPost(resp)
    \/ CleanupSleep

SpecServer == Init /\ [][ServerNext]_vars

\* ------------------------------------------------------------------ claims

\* The frames a client has received, and among them the history messages.
Frames(c) == {inbox[c][k] : k \in 1..Len(inbox[c])}
Snapshots(c) == {f \in Frames(c) : f.kind = "history"}

\* How many times the event with this id reached client c on the live path.
LiveCount(c, id) ==
    Cardinality({k \in 1..Len(inbox[c]) :
                    inbox[c][k].kind = "live" /\ inbox[c][k].ev.id = id})

\* The compaction rule of the event log as the specification words it, on a
\* whole run of events: everything up to the last clear is gone, the clear
\* too; everything before the last cleanup result is gone, the result stays.
LastReset(s) ==
    IF \E k \in 1..Len(s) : s[k].type \in {"clear", "cleanup"}
    THEN CHOOSE k \in 1..Len(s) :
            /\ s[k].type \in {"clear", "cleanup"}
            /\ \A j \in (k+1)..Len(s) : s[j].type \notin {"clear", "cleanup"}
    ELSE 0

Compact(s) ==
    IF LastReset(s) = 0 THEN s
    ELSE IF s[LastReset(s)].type = "clear" THEN SubSeq(s, LastReset(s) + 1, Len(s))
    ELSE SubSeq(s, LastReset(s), Len(s))

\* C1: a joining connection sees every event exactly once: an event in its
\* history snapshot never also reaches it live, and an event applied after
\* the snapshot reaches it live once (at most once at any time; once when
\* every fan-out has ended; on the events of the other connections).  Stated
\* for the runs in which no connection has closed or lost its client.
C1_ExactlyOnce ==
    (\A d \in Conns : pc[d] # "ended" /\ peer[d] = "open") =>
        \A c \in Conns : \A f \in Snapshots(c) :
            /\ \A e \in Range(f.data) : LiveCount(c, e.id) = 0
            /\ \A n \in (f.at + 1)..Len(applied) : LiveCount(c, applied[n].id) <= 1
            /\ Quiet =>
                  \A n \in (f.at + 1)..Len(applied) :
                      applied[n].from # c => LiveCount(c, applied[n].id) = 1

\* C2: the history a joining client receives is the compaction of all the
\* events applied before it joined, in the order applied, at one point of
\* the run.
C2_SnapshotIsCompaction ==
    \A c \in Conns : \A f \in Snapshots(c) :
        f.data = Compact(SubSeq(applied, 1, f.at))

\* C2 witness: a client joined after two events of which one compacted the log.
C2_Witness ==
    \E c \in Conns : \E f \in Snapshots(c) :
        /\ f.at = 2
        /\ Len(f.data) = 1
        /\ \E d \in Conns : pc[d] = "broadcasting"

\* C3: a send that fails inside a fan-out is caught, the failing recipient
\* is removed from the registry during the broadcast, and the loop goes on
\* to the remaining recipients.
C3_FailedRecipientPruned ==
    [][\A s \in Conns : \A out \in {"WebSocketDisconnect", "RuntimeError"} :
          (BroadcastSend(s, out) \/ \E t \in EventTypes : ReceiveEvent(s, t, out)) =>
              /\ NextRecipient(s) \notin Range(active_connections')
              /\ pc'[s] = "broadcasting"]_vars

\* C4: a frame that fails to parse is dropped: its sender stays registered
\* and goes on receiving, the log is unchanged, and no client receives it.
C4_MalformedDropped ==
    [][\A c \in Conns :
          ReceiveBad(c, "malformed") =>
              /\ pc'[c] = "receiving"
              /\ c \in Range(active_connections')
              /\ drawing_history' = drawing_history
              /\ inbox' = inbox]_vars

\* C5: no frame comes back on the sending connection as a result of its own
\* message.
C5_NoEcho ==
    \A c \in Conns : \A f \in Frames(c) : f.kind = "live" => f.ev.from # c

\* C6: after a clear event the log is empty and does not hold the clear
\* event; a client that joins before any further event gets an empty history.
C6_ClearEmptiesLog ==
    /\ \A j \in 1..Len(drawing_history) : drawing_history[j].type # "clear"
    /\ (Len(applied) > 0 /\ applied[Len(applied)].type = "clear") =>
          drawing_history = << >>
    /\ \A c \in Conns : \A f \in Snapshots(c) :
          (f.at > 0 /\ applied[f.at].type = "clear") => f.data = << >>

\* C6 witness: a client joined right after a clear that followed a stroke.
C6_Witness ==
    \E c \in Conns : \E f \in Snapshots(c) :
        /\ f.at >= 2
        /\ applied[f.at].type = "clear"
        /\ applied[f.at - 1].type = "stroke"

\* C7: after a cleanup result the log is that one event, whatever it held
\* before, and the strokes that follow are appended after it; the snapshots
\* taken meanwhile say the same.
C7_CleanupResultSupersedes ==
    \A k \in 1..Len(applied) :
        applied[k].type = "cleanup" =>
            /\ (\A j \in (k+1)..Len(applied) : applied[j].type = "stroke") =>
                  drawing_history = SubSeq(applied, k, Len(applied))
            /\ \A c \in Conns : \A f \in Snapshots(c) :
                  (f.at >= k /\ \A j \in (k+1)..f.at : applied[j].type = "stroke") =>
                      f.data = SubSeq(applied, k, f.at)

\* C7 witness: a client joined after a stroke, a cleanup result and a stroke.
C7_Witness ==
    \E c \in Conns : \E f \in Snapshots(c) :
        /\ f.at >= 3
        /\ applied[f.at - 2].type = "stroke"
        /\ applied[f.at - 1].type = "cleanup"
        /\ applied[f.at].type = "stroke"

\* C8: after k <= 4 responses with a retryable status the call is still
\* running, it issues attempt k+1 after a total backoff of 2^k - 1, and a
\* 200 with valid JSON on that attempt ends it in success.
C8_RetryThenSuccess ==
    (apiKey = "valid" /\ image = 1 /\ cpc # "idle") =>
        \A k \in 0..4 :
            (Len(responses) >= k
             /\ \A j \in 1..k : responses[j].status \in {429, 500, 503}) =>
                /\ Len(responses) = k => cpc \in {"posting", "sleeping"}
                /\ (Len(responses) = k /\ cpc = "posting") =>
                      (slept = 2^k - 1 /\ attempt = k)
                /\ (Len(responses) = k + 1
                    /\ responses[k+1] = [status |-> 200, content |-> "json"]) =>
                      (cpc = "done" /\ cresult = "success" /\ slept = 2^k - 1)

\* C8 witness: four 503 responses, then success on the fifth attempt.
C8_Witness ==
    /\ cpc = "done"
    /\ cresult = "success"
    /\ Len(responses) = 5
    /\ \A j \in 1..4 : responses[j].status = 503

\* C9: a service that always answers 503 ends the call after exactly five
\* attempts, with the "failed after multiple retries" outcome.
C9_ExhaustionDistinct ==
    /\ Len(responses) <= 5
    /\ (cpc = "done" /\ Len(responses) = 5
        /\ \A j \in 1..5 : responses[j].status = 503) => cresult = "exhausted"

\* C10: a non-retryable HTTP status, or a 200 without content, ends the call
\* on that attempt in a terminal failure: no backoff is waited for it, and
\* nothing is requested or waited afterwards.
C10_TerminalFailureImmediate ==
    /\ [][(/\ cpc = "posting"
           /\ Len(responses') = Len(responses) + 1
           /\ \/ responses'[Len(responses')].status \notin {0, 200, 429, 500, 503}
              \/ responses'[Len(responses')] = [status |-> 200, content |-> "absent"])
          => (/\ cpc' = "done"
              /\ cresult' \in {"request_failed", "unexpected"}
              /\ slept' = slept)]_vars
    /\ [][cpc = "done" =>
            (cpc' = "done" /\ responses' = responses /\ slept' = slept)]_vars

\* C10 witness: two retried attempts, then a 401 on the third.
C10_Witness ==
    /\ cpc = "done"
    /\ Len(responses) = 3
    /\ responses[3].status = 401
    /\ slept = 3

\* C11: with the key absent or without its prefix the call ends at once in a
\* configuration error, and with a usable key and a data URL without a comma
\* it ends at once in a client error; no request is sent and no backoff is
\* waited in either case.
C11_ValidationFailsFirst ==
    (cpc # "idle" /\ (apiKey \in {"missing", "noprefix"} \/ image = 0)) =>
        /\ cpc = "done"
        /\ responses = << >>
        /\ slept = 0
        /\ apiKey = "missing" => cresult = "config_missing"
        /\ apiKey = "noprefix" => cresult = "config_invalid"
        /\ (apiKey = "valid" /\ image = 0) => cresult = "bad_image"

\* C11 witness: a call with a usable key and a data URL without a comma ended.
C11_Witness ==
    /\ cpc = "done"
    /\ apiKey = "valid"
    /\ image = 0
    /\ cresult = "bad_image"

\* C12: unregistering a connection that is not in the registry raises no
\* error and leaves the registry and the event log as they were.
C12_UnregisterIdempotent ==
    [][\A c \in Conns :
          (Unregister(c) /\ c \notin Range(active_connections)) =>
              /\ raised' = "none"
              /\ active_connections' = active_connections
              /\ drawing_history' = drawing_history]_vars

\* What a client holds: the compaction of its history snapshot followed by
\* the events delivered to it, in the order delivered (its own events reach
\* it in that same stream).
IsLive(f) == f.kind = "live"
LiveEvents(c) ==
    [k \in 1..Len(SelectSeq(inbox[c], IsLive)) |-> SelectSeq(inbox[c], IsLive)[k].ev]
ClientView(c, f) == Compact(f.data \o LiveEvents(c))

\* C13: once every fan-out has completed, each connection that stayed active
\* holds the same content as the server's log: the compaction of its
\* snapshot and deliveries has the same events as drawing_history.  Stated
\* for the runs in which no connection has closed or lost its client, and
\* on the set of events held, whatever their order.
C13_ClientsConverge ==
    (Quiet /\ \A d \in Conns : pc[d] # "ended" /\ peer[d] = "open") =>
        \A c \in Conns : \A f \in Snapshots(c) :
            Range(ClientView(c, f)) = Range(drawing_history)

\* C14: when a fan-out has gone through the registry, every connection other
\* than the sender that was registered before the event was applied and is
\* still registered, with its client there, has received the event exactly
\* once, whatever was registered or unregistered while the fan-out was
\* suspended.
C14_RegisteredReceiveOnce ==
    \A s \in Conns :
        (pc[s] = "broadcasting" /\ bidx[s] >= Len(active_connections)) =>
            \A c \in Conns \ {s} :
                (/\ c \in Range(active_connections)
                 /\ pc[c] \in {"receiving", "broadcasting"}
                 /\ peer[c] = "open"
                 /\ \E f \in Snapshots(c) : f.at < bmsg[s].id)
                => LiveCount(c, bmsg[s].id) = 1

\* C15: a send that fails on a recipient other than the sender leaves the
\* sender registered with its handler running and its fan-out going on, and
\* the log as add_to_history made it.
C15_RecipientFailureIsolated ==
    [][\A s \in Conns : \A out \in {"WebSocketDisconnect", "RuntimeError"} :
          (/\ BroadcastSend(s, out) \/ \E t \in EventTypes : ReceiveEvent(s, t, out)
           /\ NextRecipient(s) # s) =>
              /\ s \in Range(active_connections')
              /\ pc'[s] # "ended"
              /\ Len(applied') > 0
              /\ drawing_history' \in
                    {drawing_history,
                     add_to_history(drawing_history, applied'[Len(applied')])}]_vars

\* The failures the loop answers with a backoff: a retryable status, or a 200
\* whose content json.loads rejects.
RetryableFailure(resp) ==
    \/ resp.status \in {429, 500, 503}
    \/ resp = [status |-> 200, content |-> "unparsable"]

\* C16: unparsable content is retried like a retryable status: after n <= 4
\* failures of either kind, in any mix, the call waits 2^(n-1) before attempt
\* n+1, having waited 2^(n-1) - 1 before; nothing is waited after the fifth
\* attempt, so the waits never add up to more than 1 + 2 + 4 + 8.
C16_UniformBackoff ==
    (apiKey = "valid" /\ image = 1 /\ cpc # "idle") =>
        /\ \A n \in 1..4 :
              (Len(responses) = n
               /\ \A j \in 1..n : RetryableFailure(responses[j])) =>
                  /\ cpc \in {"sleeping", "posting"}
                  /\ cpc = "sleeping" => (delay = 2^(n-1) /\ slept = 2^(n-1) - 1)
                  /\ cpc = "posting" => (slept = 2^n - 1 /\ attempt = n)
        /\ Len(responses) = 5 => (cpc = "done" /\ slept = 15)
        /\ slept <= 15

\* C16 witness: unparsable content, 503, unparsable content and 429 have been
\* answered with waits of 1, 2, 4 and 8, and the fifth attempt is due.
C16_Witness ==
    /\ cpc = "posting"
    /\ Len(responses) = 4
    /\ responses[1].content = "unparsable"
    /\ responses[2].status = 503
    /\ responses[3].content = "unparsable"
    /\ responses[4].status = 429
    /\ slept = 15

\* The terminal state a finished call shows its caller: the success return;
\* an outcome that only the end of the retries produces; any other raise.
TerminalState ==
    IF cpc # "done" THEN "running"
    ELSE IF cresult = "success" THEN "Success"
    ELSE IF cresult \in {"exhausted", "invalid_json"} THEN "Exhausted"
    ELSE "TerminalFailure"

\* C17: a call that passed validation issues at most five attempts, and it
\* ends in the Exhausted state exactly when its fifth attempt ended in a
\* retryable failure (a retryable status or unparsable content).
C17_StrictStateMachine ==
    (apiKey = "valid" /\ image = 1) =>
        /\ Len(responses) <= 5
        /\ cpc = "done" =>
              (TerminalState = "Exhausted" <=>
                  (Len(responses) = 5 /\ RetryableFailure(responses[5])))

\* C18: while a cleanup call awaits its response or sleeps in its backoff,
\* the hub can go on: a new connection can register, a connected client's
\* frame can be received and a lost client's handler can end; and no step of
\* the cleanup call changes the event log or the registry.
C18_HubRunsDuringCleanup ==
    /\ [](cpc \in {"posting", "sleeping"} =>
            \A c \in Conns :
                /\ (pc[c] = "new" /\ \A d \in Conns : d < c => pc[d] # "new") =>
                      ENABLED Register(c, "ok")
                /\ (pc[c] = "receiving" /\ peer[c] = "open") =>
                      ENABLED (\E out \in SendResults : ReceiveEvent(c, "stroke", out))
                /\ (pc[c] = "receiving" /\ peer[c] = "gone") =>
                      ENABLED HandlerDisconnect(c))
    /\ [][(CleanupStart \/ CleanupSleep \/ \E resp \in Responses : CleanupPost(resp))
            => (drawing_history' = drawing_history
                /\ active_connections' = active_connections)]_vars

\* C19: a connection is in the registry exactly while it is active: not
\* before its handler registered it, and not after its handler has ended,
\* for whatever reason it ended.
C19_RegisteredOnlyWhileActive ==
    \A c \in Conns :
        c \in Range(active_connections) <=> pc[c] \in {"receiving", "broadcasting"}

\* C20: an event is in the log before any client receives it live; the
\* events are applied one at a time in the order the frames were taken; while
\* a connection's fan-out is under way, the event it sends is the last one
\* applied from that connection; and each client receives the events of one
\* sender in the order they were applied.
C20_AppliedBeforeFanOut ==
    /\ \A n \in 1..Len(applied) : applied[n].id = n
    /\ \A c \in Conns : \A f \in Frames(c) :
          f.kind = "live" => (f.ev.id <= Len(applied) /\ applied[f.ev.id] = f.ev)
    /\ \A s \in Conns :
          pc[s] = "broadcasting" =>
              /\ bmsg[s].id \in 1..Len(applied)
              /\ applied[bmsg[s].id] = bmsg[s]
              /\ \A n \in 1..Len(applied) : applied[n].from = s => n <= bmsg[s].id
    /\ \A c \in Conns : \A i, j \in 1..Len(LiveEvents(c)) :
          (i < j /\ LiveEvents(c)[i].from = LiveEvents(c)[j].from) =>
              LiveEvents(c)[i].id <= LiveEvents(c)[j].id

\* C20 witness: a connection is fanning out its second event, and another
\* client has received the first and the second.
C20_Witness ==
    \E s \in Conns :
        /\ pc[s] = "broadcasting"
        /\ bmsg[s].id = 2
        /\ applied[1].from = s
        /\ \E c \in Conns \ {s} : LiveCount(c, 1) = 1 /\ LiveCount(c, 2) = 1

====
